---- MODULE Spec2Model ----
(***************************************************************************)
(* A model of pythia-gallery.py: run_transform locates the placeholder     *)
(* nodes of a document tree, render_cookbooks fetches the metadata of      *)
(* every listed cookbook on a thread pool, renders one card per cookbook,  *)
(* aggregates the tags into two filter groups, and run_transform installs  *)
(* the controls and the grid of cards in every placeholder.                *)
(*                                                                         *)
(* Python strings whose order matters (the tags) are sequences of code     *)
(* points; None is NoneVal; a dict is the sequence of its items in         *)
(* insertion order; an uncaught exception is pc = "raised".                *)
(***************************************************************************)
EXTENDS Integers, Sequences, FiniteSets, TLC

\* ------------------------------------------------------------- bounds
MaxIds == 3
MaxWorkers == 2
MaxNodes == 2

\* ThreadPoolExecutor() without max_workers: min(32, cpu_count + 4) >= 5
DefaultMaxWorkers == 5

\* ------------------------------------------------------------- values
NoneVal == [kind |-> "None"]
RaiseVal == [kind |-> "raise"]

Ids == {"a", "b", "c"}

\* the tag strings "a", "ab", "b" as code points
tag_a == <<97>>
tag_ab == <<97, 98>>
tag_b == <<98>>
SPACE == <<32>>
\* "tagged-card"
TAGGED_CARD == <<116, 97, 103, 103, 101, 100, 45, 99, 97, 114, 100>>

PLACEHOLDER == "pythia-cookbooks"

List(s) == [kind |-> "list", elems |-> s]
Item(k, v) == [key |-> k, val |-> v]
Dict(items) == [kind |-> "dict", items |-> items]

\* {"background": bg, **LAYOUT_STYLE}: LAYOUT_STYLE is the same in every style, so a
\* style is told by its background
Style(bg) == [background |-> bg]
DEFAULT_STYLE == Style("#4E66F6")
styles == Dict(<<Item("domains", Style("#7A77B4")), Item("packages", Style("#B83BC0"))>>)

\* dict.get(key, default) / key in dict, on the item sequence
HasKey(d, k) == \E j \in 1..Len(d.items) : d.items[j].key = k
DictGet(d, k, default) ==
    IF HasKey(d, k)
    THEN d.items[CHOOSE j \in 1..Len(d.items) : d.items[j].key = k].val
    ELSE default

\* ------------------------------------------------------------- the remote documents
\* what a request for myst.yml can produce: an error (transport or decoding),
\* a document without project.title, a document with it
ConfigResponses ==
    { RaiseVal,
      [kind |-> "doc", has_title |-> FALSE, title |-> ""],
      [kind |-> "doc", has_title |-> TRUE, title |-> "Cookbook"] }

\* the values of the tags field of _gallery_info.yml that the model draws from
TagsSamples ==
    { NoneVal,
      Dict(<<Item("domains", List(<<tag_b, tag_a, tag_ab>>)),
             Item("packages", List(<<tag_ab, tag_ab>>))>>),
      Dict(<<Item("packages", List(<<tag_b, tag_ab>>)),
             Item("other", List(<<tag_a>>))>>),
      Dict(<<Item("domains", List(<<tag_a>>)), Item("other", NoneVal)>>),
      Dict(<<Item("domains", List(<<tag_b>>)), Item("packages", NoneVal)>>) }

GalleryDoc(hasThumb, hasTags, tags) ==
    [kind |-> "doc", has_thumbnail |-> hasThumb, thumbnail |-> "thumbnail.png",
     has_tags |-> hasTags, tags |-> tags]

GalleryResponses ==
    { RaiseVal, GalleryDoc(FALSE, FALSE, NoneVal), GalleryDoc(TRUE, FALSE, NoneVal) }
    \cup { GalleryDoc(TRUE, TRUE, t) : t \in TagsSamples }

\* ------------------------------------------------------------- the document tree
Paragraph == [type |-> "paragraph", children |-> <<"text">>, key |-> "p"]
FreshPlaceholder == [type |-> PLACEHOLDER, children |-> <<>>, key |-> "d"]
UsedPlaceholder == [type |-> PLACEHOLDER, children |-> <<"old">>, key |-> "d"]
NodeSamples == {Paragraph, FreshPlaceholder, UsedPlaceholder}

SeqsUpTo(S, n) == UNION {[1..m -> S] : m \in 0..n}
Trees == SeqsUpTo(NodeSamples, MaxNodes)
SampleTree == <<Paragraph, UsedPlaceholder>>

VARIABLES
    pc,               \* where run_transform is
    body,             \* the lines of cookbook_gallery.txt
    tree,             \* the children of the root of the document (data)
    max_workers,      \* the size of the pool
    tasks,            \* one fetch task per list position: status, result, runs
    cookbook_nodes,   \* run_transform: the placeholders found (positions in tree)
    cookbook_entries, \* render_cookbooks: the list pool.map yields
    i,                \* the position the loop of line 110 is at
    cookbook_data,    \* dict name -> card (or None)
    tag_lists,        \* {"domains": set(), "packages": set()}
    category,         \* the loop variable of line 115, which outlives its loop
    card_nodes,       \* the cards render_cookbooks returns
    controls_node,    \* the controls render_cookbooks returns
    grid_node,        \* run_transform: grid([1, 1, 2, 3], card_nodes)
    k,                \* the position the loop of line 189 is at
    fetch_runs,       \* how many times the resource list was fetched
    writes,           \* how many times each node of the tree was written
    overtaken,        \* a task has finished before a task submitted earlier
    tree0             \* the tree as it was given

vars == <<pc, body, tree, max_workers, tasks, cookbook_nodes, cookbook_entries, i,
          cookbook_data, tag_lists, category, card_nodes, controls_node, grid_node,
          k, fetch_runs, writes, overtaken, tree0>>

\* ------------------------------------------------------------- pure functions
\* Python's order on str: code point by code point, a proper prefix first
RECURSIVE StrLess(_, _)
StrLess(s, t) ==
    IF s = <<>> THEN t # <<>>
    ELSE IF t = <<>> THEN FALSE
    ELSE IF Head(s) # Head(t) THEN Head(s) < Head(t)
    ELSE StrLess(Tail(s), Tail(t))

\* sorted(..., reverse=True)
RECURSIVE sorted_reverse(_)
sorted_reverse(S) ==
    IF S = {} THEN <<>>
    ELSE LET m == CHOOSE x \in S : \A y \in S \ {x} : StrLess(y, x)
         IN <<m>> \o sorted_reverse(S \ {m})

\* sorted(a set of str)
RECURSIVE sorted(_)
sorted(S) ==
    IF S = {} THEN <<>>
    ELSE LET m == CHOOSE x \in S : \A y \in S \ {x} : StrLess(x, y)
         IN <<m>> \o sorted(S \ {m})

\* set(a list)
Elems(s) == {s[j] : j \in 1..Len(s)}

\* fetch_cookbook_data, given what the two requests produce
fetch_cookbook_data(name, config, gallery_data) ==
    IF config.kind = "raise" THEN NoneVal                 \* fetch_yaml raises
    ELSE IF ~config.has_title THEN NoneVal                \* KeyError
    ELSE IF gallery_data.kind = "raise" THEN NoneVal      \* fetch_yaml raises
    ELSE IF ~gallery_data.has_thumbnail THEN NoneVal      \* KeyError
    ELSE [kind |-> "record",
          title |-> config.title,
          book_url |-> [site |-> "projectpythia-mystmd.github.io", name |-> name],
          image_url |-> [raw |-> name, path |-> gallery_data.thumbnail],
          tags |-> IF gallery_data.has_tags THEN gallery_data.tags ELSE Dict(<<>>)]

\* [item for _, items in tags.items() for item in items]
RECURSIVE FlatItems(_)
FlatItems(items) ==
    IF items = <<>> THEN <<>>
    ELSE Head(items).val.elems \o FlatItems(Tail(items))

\* [span([text(item)], style=styles.get(category, DEFAULT_STYLE))
\*  for category, items in tags.items() if items for item in items]
RECURSIVE Labels(_)
Labels(items) ==
    IF items = <<>> THEN <<>>
    ELSE LET c == Head(items).key
             e == Head(items).val.elems
         IN [j \in 1..Len(e) |-> [text |-> e[j], style |-> DictGet(styles, c, DEFAULT_STYLE)]]
            \o Labels(Tail(items))

\* render_cookbook: the card, or None when building it raises
render_cookbook(name, data) ==
    IF data.tags.kind # "dict" THEN NoneVal       \* None has no .items()
    ELSE IF \E j \in 1..Len(data.tags.items) : data.tags.items[j].val.kind # "list"
         THEN NoneVal                             \* None is not iterable
    ELSE [kind |-> "card",
          type |-> "card",
          url |-> data.book_url,
          class |-> <<TAGGED_CARD>> \o FlatItems(data.tags.items),
          title |-> data.title,
          image |-> data.image_url,
          labels |-> Labels(data.tags.items)]

\* the keys of tag_lists, in the order line 115 visits them
CATEGORIES == <<"domains", "packages">>

\* lines 115-116 from the c-th category on: the tag lists, the loop variable and
\* whether data["tags"].get or set.update raised
RECURSIVE Collect(_, _, _, _)
Collect(data, c, tl, cat) ==
    IF c > Len(CATEGORIES) THEN [tag_lists |-> tl, category |-> cat, raised |-> FALSE]
    ELSE LET name == CATEGORIES[c]
         IN IF data.tags.kind # "dict"
            THEN [tag_lists |-> tl, category |-> name, raised |-> TRUE]
            ELSE LET v == DictGet(data.tags, name, List(<<>>))
                 IN IF v.kind # "list"
                    THEN [tag_lists |-> tl, category |-> name, raised |-> TRUE]
                    ELSE Collect(data, c + 1,
                                 [tl EXCEPT ![name] = @ \cup Elems(v.elems)], name)

\* cookbook_data[name] = value
DictSet(d, name, value) ==
    [n \in DOMAIN d \cup {name} |-> IF n = name THEN value ELSE d[n]]

\* [cookbook_data[name] for name in reversed(body) if name in cookbook_data]
RECURSIVE NodesReversed(_, _)
NodesReversed(names, d) ==
    IF names = <<>> THEN <<>>
    ELSE NodesReversed(Tail(names), d)
         \o (IF Head(names) \in DOMAIN d THEN <<d[Head(names)]>> ELSE <<>>)

\* [cookbook_data[name] for name in body if name in cookbook_data]
RECURSIVE Nodes(_, _)
Nodes(names, d) ==
    IF names = <<>> THEN <<>>
    ELSE (IF Head(names) \in DOMAIN d THEN <<d[Head(names)]>> ELSE <<>>)
         \o Nodes(Tail(names), d)

\* the category whose style a checkbox row of `group` gets: lines 137 and 162 read
\* the variable `category`, which the loop of line 115 left behind
RowCategory(group, cat) == cat

\* one of the two groups of lines 121-168
Controls(group, label, tl, cat) ==
    LET tags == sorted(tl[group])
    IN [type |-> "div",
        class |-> <<group>>,
        label |-> label,
        rows |-> [j \in 1..Len(tags) |->
                    [rel |-> tags[j],
                     text |-> SPACE \o tags[j],
                     style |-> DictGet(styles, RowCategory(group, cat), DEFAULT_STYLE)]]]

\* find_all_by_type(data, "pythia-cookbooks"): the positions, in document order
RECURSIVE find_all_by_type(_, _, _)
find_all_by_type(t, type, from) ==
    IF from > Len(t) THEN <<>>
    ELSE (IF t[from].type = type THEN <<from>> ELSE <<>>)
         \o find_all_by_type(t, type, from + 1)

\* grid([1, 1, 2, 3], card_nodes)
grid(columns, children) == [type |-> "grid", columns |-> columns, children |-> children]

\* lines 191-192 without the node.clear() of line 190
RewrittenUncleared(node, controls, g) ==
    [type |-> "container", children |-> <<controls, g>>, key |-> node.key]

\* lines 190-192: node.clear(); node["type"] = ...; node["children"] = ...
Rewritten(node, controls, g) == [type |-> "container", children |-> <<controls, g>>]

\* a join that waits for the tasks to be taken by a worker, not for their results
JoinWhenStarted(ts) == \A p \in 1..Len(ts) : ts[p].status # "queued"

\* list(pool.map(fetch_cookbook_data, body)): blocks until every task has a result
\* and yields the results by position
JoinReady(ts) == \A p \in 1..Len(ts) : ts[p].status = "done"
pool_map(ts) == [p \in 1..Len(ts) |-> ts[p].result]

\* ------------------------------------------------------------- initial states
Unbound == "unbound"
EmptyDict == [n \in {} |-> NoneVal]

InitWith(b, t, w) ==
    /\ pc = "find"
    /\ body = b
    /\ tree = t
    /\ tree0 = t
    /\ max_workers = w
    /\ tasks = <<>>
    /\ cookbook_nodes = <<>>
    /\ cookbook_entries = <<>>
    /\ i = 1
    /\ cookbook_data = EmptyDict
    /\ tag_lists = [domains |-> {}, packages |-> {}]
    /\ category = Unbound
    /\ card_nodes = <<>>
    /\ controls_node = NoneVal
    /\ grid_node = NoneVal
    /\ k = 1
    /\ fetch_runs = 0
    /\ writes = [n \in 1..Len(t) |-> 0]
    /\ overtaken = FALSE

\* any resource list, the pool of ThreadPoolExecutor(), one document
Init == \E b \in SeqsUpTo(Ids, MaxIds) : InitWith(b, SampleTree, DefaultMaxWorkers)

\* any pool size, one document
InitPool ==
    \E b \in SeqsUpTo({"a", "b"}, MaxIds), w \in 1..MaxWorkers : InitWith(b, SampleTree, w)

\* any document
InitTree ==
    \E b \in SeqsUpTo({"a"}, MaxIds), t \in Trees : InitWith(b, t, DefaultMaxWorkers)

\* ------------------------------------------------------------- actions
\* line 186
FindPlaceholders ==
    /\ pc = "find"
    /\ cookbook_nodes' = find_all_by_type(tree, PLACEHOLDER, 1)
    /\ pc' = "submit"
    /\ UNCHANGED <<body, tree, max_workers, tasks, cookbook_entries, i, cookbook_data,
                   tag_lists, category, card_nodes, controls_node, grid_node, k,
                   fetch_runs, writes, overtaken, tree0>>

\* lines 101-105: pool.map submits one task per line of the file
Submit ==
    /\ pc = "submit"
    /\ tasks' = [p \in 1..Len(body) |-> [status |-> "queued", result |-> NoneVal, runs |-> 0]]
    /\ fetch_runs' = fetch_runs + 1
    /\ pc' = "fetch"
    /\ UNCHANGED <<body, tree, max_workers, cookbook_nodes, cookbook_entries, i,
                   cookbook_data, tag_lists, category, card_nodes, controls_node,
                   grid_node, k, writes, overtaken, tree0>>

Running(ts) == {p \in 1..Len(ts) : ts[p].status = "running"}

\* a free worker takes the oldest queued task
StartTask(p) ==
    /\ pc = "fetch"
    /\ tasks[p].status = "queued"
    /\ \A q \in 1..(p - 1) : tasks[q].status # "queued"
    /\ Cardinality(Running(tasks)) < max_workers
    /\ tasks' = [tasks EXCEPT ![p].status = "running", ![p].runs = @ + 1]
    /\ UNCHANGED <<pc, body, tree, max_workers, cookbook_nodes, cookbook_entries, i,
                   cookbook_data, tag_lists, category, card_nodes, controls_node,
                   grid_node, k, fetch_runs, writes, overtaken, tree0>>

\* what fetch_cookbook_data(name) can return, over what its two requests produce
FetchResults(name) ==
    { fetch_cookbook_data(name, config, gallery_data) :
        config \in ConfigResponses, gallery_data \in GalleryResponses }

\* lines 35-64: the task's two requests return or raise
FinishTask(p) ==
    /\ pc = "fetch"
    /\ tasks[p].status = "running"
    /\ \E result \in FetchResults(body[p]) :
         tasks' = [tasks EXCEPT ![p].status = "done", ![p].result = result]
    /\ overtaken' = (overtaken \/ \E q \in 1..(p - 1) : tasks[q].status # "done")
    /\ UNCHANGED <<pc, body, tree, max_workers, cookbook_nodes, cookbook_entries, i,
                   cookbook_data, tag_lists, category, card_nodes, controls_node,
                   grid_node, k, fetch_runs, writes, tree0>>

\* line 105: list(...) returns
Join ==
    /\ pc = "fetch"
    /\ JoinReady(tasks)
    /\ cookbook_entries' = pool_map(tasks)
    /\ pc' = "loop"
    /\ UNCHANGED <<body, tree, max_workers, tasks, cookbook_nodes, i, cookbook_data,
                   tag_lists, category, card_nodes, controls_node, grid_node, k,
                   fetch_runs, writes, overtaken, tree0>>

\* lines 110-116: one iteration
LoopStep ==
    /\ pc = "loop"
    /\ i <= Len(body)
    /\ LET name == body[i]
           data == cookbook_entries[i]
       IN IF data = NoneVal
          THEN /\ i' = i + 1
               /\ UNCHANGED <<pc, cookbook_data, tag_lists, category>>
          ELSE LET r == Collect(data, 1, tag_lists, category)
               IN /\ cookbook_data' = DictSet(cookbook_data, name, render_cookbook(name, data))
                  /\ tag_lists' = r.tag_lists
                  /\ category' = r.category
                  /\ IF r.raised
                     THEN pc' = "raised" /\ UNCHANGED i
                     ELSE i' = i + 1 /\ UNCHANGED pc
    /\ UNCHANGED <<body, tree, max_workers, tasks, cookbook_nodes, cookbook_entries,
                   card_nodes, controls_node, grid_node, k, fetch_runs, writes, overtaken, tree0>>

\* lines 118-176
BuildOutput ==
    /\ pc = "loop"
    /\ i > Len(body)
    /\ IF category = Unbound /\ (tag_lists.domains # {} \/ tag_lists.packages # {})
       THEN /\ pc' = "raised"                      \* NameError
            /\ UNCHANGED <<card_nodes, controls_node>>
       ELSE /\ controls_node' =
                  [type |-> "div",
                   class |-> <<"filter-controls">>,
                   children |-> <<Controls("domains", "Filter by Domain:", tag_lists, category),
                                  Controls("packages", "Filter by Package:", tag_lists, category)>>]
            /\ card_nodes' = Nodes(body, cookbook_data)
            /\ pc' = "grid"
    /\ UNCHANGED <<body, tree, max_workers, tasks, cookbook_nodes, cookbook_entries, i,
                   cookbook_data, tag_lists, category, grid_node, k, fetch_runs, writes,
                   overtaken, tree0>>

\* line 188
MakeGrid ==
    /\ pc = "grid"
    /\ grid_node' = grid(<<1, 1, 2, 3>>, card_nodes)
    /\ pc' = "rewrite"
    /\ UNCHANGED <<body, tree, max_workers, tasks, cookbook_nodes, cookbook_entries, i,
                   cookbook_data, tag_lists, category, card_nodes, controls_node, k,
                   fetch_runs, writes, overtaken, tree0>>

\* lines 189-192: one iteration
RewriteNode ==
    /\ pc = "rewrite"
    /\ k <= Len(cookbook_nodes)
    /\ LET n == cookbook_nodes[k]
       IN /\ tree' = [tree EXCEPT ![n] = Rewritten(tree[n], controls_node, grid_node)]
          /\ writes' = [writes EXCEPT ![n] = @ + 1]
    /\ k' = k + 1
    /\ UNCHANGED <<pc, body, max_workers, tasks, cookbook_nodes, cookbook_entries, i,
                   cookbook_data, tag_lists, category, card_nodes, controls_node,
                   grid_node, fetch_runs, overtaken, tree0>>

\* line 193
Return ==
    /\ pc = "rewrite"
    /\ k > Len(cookbook_nodes)
    /\ pc' = "done"
    /\ UNCHANGED <<body, tree, max_workers, tasks, cookbook_nodes, cookbook_entries, i,
                   cookbook_data, tag_lists, category, card_nodes, controls_node,
                   grid_node, k, fetch_runs, writes, overtaken, tree0>>

Next ==
    \/ FindPlaceholders
    \/ Submit
    \/ \E p \in 1..Len(tasks) : StartTask(p)
    \/ \E p \in 1..Len(tasks) : FinishTask(p)
    \/ Join
    \/ LoopStep
    \/ BuildOutput
    \/ MakeGrid
    \/ RewriteNode
    \/ Return

Spec == Init /\ [][Next]_vars
PoolSpec == InitPool /\ [][Next]_vars /\ WF_vars(Next)
TreeSpec == InitTree /\ [][Next]_vars

\* ------------------------------------------------------------- properties
\* render_cookbooks has returned its controls and its cards
Returned == pc \in {"grid", "rewrite", "done"}

Distinct(names) ==
    \A p, q \in 1..Len(names) : p # q => names[p] # names[q]

Positions == [p \in 1..Len(tasks) |-> p]
Fetched(p) == tasks[p].result # NoneVal
Rendered(p) == Fetched(p) /\ render_cookbook(body[p], tasks[p].result) # NoneVal

\* the cards of the positions whose own fetch succeeded, each from the record its
\* own task returned, in list order
CardsOfFetched ==
    LET ok == SelectSeq(Positions, LAMBDA p : Fetched(p))
    IN [j \in 1..Len(ok) |-> render_cookbook(body[ok[j]], tasks[ok[j]].result)]

\* the same, without the positions whose card could not be rendered
CardsOfRendered ==
    LET ok == SelectSeq(Positions, LAMBDA p : Rendered(p))
    IN [j \in 1..Len(ok) |-> render_cookbook(body[ok[j]], tasks[ok[j]].result)]

Rows(g) == controls_node.children[g].rows

\* C1: for pairwise distinct ids, whatever fetches fail and in whatever order the
\* tasks complete, the cards returned are the cards of the fetched ids, in the order
\* of the list
C1_CardsInRequestOrder ==
    (Returned /\ Distinct(body)) => card_nodes = CardsOfFetched

C1_Witness ==
    /\ pc = "done"
    /\ Len(body) = 3
    /\ Distinct(body)
    /\ overtaken
    /\ Fetched(1) /\ ~Fetched(2) /\ Fetched(3)
    /\ Len(card_nodes) = 2
    /\ card_nodes[1] # NoneVal /\ card_nodes[2] # NoneVal
    /\ card_nodes[1] # card_nodes[2]

\* C2: a resource whose card cannot be rendered is left out: no entry of the card
\* list is null, and the list is the cards of the other resources
C2_RenderFailureExcluded ==
    Returned => /\ \A j \in 1..Len(card_nodes) : card_nodes[j] # NoneVal
                /\ card_nodes = CardsOfRendered

\* C3: no outcome of any resource aborts the batch: no exception escapes
C3_NeverAborts == pc # "raised"

\* C4: the tag index holds tag t under category c exactly when a resource that is in
\* the gallery (fetched, and its card rendered) lists t under c
C4_TagIndexOfGallery ==
    Returned =>
        \A c \in {"domains", "packages"}, t \in {tag_a, tag_ab, tag_b} :
            t \in tag_lists[c]
            <=> \E p \in 1..Len(tasks) :
                    /\ Rendered(p)
                    /\ t \in Elems(DictGet(tasks[p].result.tags, c, List(<<>>)).elems)

\* C5: every checkbox row has the style of the category of its own group
C5_RowStyleOfGroup ==
    Returned =>
        \A g \in 1..Len(CATEGORIES) : \A j \in 1..Len(Rows(g)) :
            Rows(g)[j].style = DictGet(styles, CATEGORIES[g], DEFAULT_STYLE)

\* C6: with an id at several positions, there is one card per position whose own
\* fetch succeeded, built from the record fetched for that position
C6_DuplicatesIndependent ==
    Returned => card_nodes = CardsOfFetched

\* s comes before t in lexicographic order: they agree up to some length, where s
\* ends and t does not, or where s has the smaller character
LexBefore(s, t) ==
    \E n \in 0..Len(s) :
        /\ n <= Len(t)
        /\ \A j \in 1..n : s[j] = t[j]
        /\ \/ n = Len(s) /\ n < Len(t)
           \/ n < Len(s) /\ n < Len(t) /\ s[n + 1] < t[n + 1]

\* C7: in each group the tags of the rows are strictly ascending in lexicographic
\* order, and each tag of the category's set is in exactly one row
C7_RowsStrictlySorted ==
    Returned =>
        \A g \in 1..Len(CATEGORIES) :
            /\ \A j \in 1..(Len(Rows(g)) - 1) : LexBefore(Rows(g)[j].rel, Rows(g)[j + 1].rel)
            /\ {Rows(g)[j].rel : j \in 1..Len(Rows(g))} = tag_lists[CATEGORIES[g]]
            /\ Len(Rows(g)) = Cardinality(tag_lists[CATEGORIES[g]])
            /\ \A j \in 1..Len(Rows(g)) : Rows(g)[j].text = SPACE \o Rows(g)[j].rel

C7_Witness ==
    /\ pc = "done"
    /\ Len(body) >= 2
    /\ \A p \in 1..2 : Fetched(p) /\ tasks[p].result.tags.kind = "dict"
    /\ tasks[1].result.tags # tasks[2].result.tags
    /\ [j \in 1..Len(Rows(1)) |-> Rows(1)[j].rel] = <<tag_a, tag_ab, tag_b>>
    /\ [j \in 1..Len(Rows(2)) |-> Rows(2)[j].rel] = <<tag_ab, tag_b>>

\* C8: when run_transform returns, every node that was a placeholder has been
\* written once, holds nothing but the type "container" and the children
\* [controls, grid], the same for all; every other node is as it was; the resource
\* list was fetched once
C8_PlaceholdersRewritten ==
    pc = "done" =>
        /\ Len(tree) = Len(tree0)
        /\ fetch_runs = 1
        /\ controls_node # NoneVal /\ grid_node = grid(<<1, 1, 2, 3>>, card_nodes)
        /\ \A n \in 1..Len(tree0) :
             IF tree0[n].type = PLACEHOLDER
             THEN /\ tree[n] = [type |-> "container", children |-> <<controls_node, grid_node>>]
                  /\ writes[n] = 1
             ELSE /\ tree[n] = tree0[n]
                  /\ writes[n] = 0

C8_Witness ==
    /\ pc = "done"
    /\ tree0 = <<UsedPlaceholder, FreshPlaceholder>>
    /\ tree[1] = tree[2]
    /\ tree[1].type = "container"
    /\ Len(grid_node.children) = 2

\* every fetch task submitted has resolved
AllResolved ==
    /\ Len(tasks) = Len(body)
    /\ \A p \in 1..Len(tasks) : tasks[p].status = "done"

\* nothing has been rendered, aggregated or rewritten
Untouched ==
    /\ pc \in {"find", "submit", "fetch"}
    /\ cookbook_entries = <<>>
    /\ i = 1
    /\ cookbook_data = EmptyDict
    /\ tag_lists = [domains |-> {}, packages |-> {}]
    /\ category = Unbound
    /\ card_nodes = <<>>
    /\ controls_node = NoneVal
    /\ grid_node = NoneVal
    /\ tree = tree0

\* a step of the fetch phase writes the slot of one task and nothing else
OneSlotWritten ==
    (pc = "fetch" /\ pc' = "fetch") =>
        /\ Cardinality({p \in 1..Len(tasks) : tasks'[p] # tasks[p]}) <= 1
        /\ Untouched'

\* C9: until every fetch task has resolved no card is rendered, no tag is collected
\* and no placeholder is rewritten; and the tasks write disjoint slots, one at a time
C9_JoinBarrier == [](Untouched \/ AllResolved) /\ [][OneSlotWritten]_vars

C9_Witness ==
    /\ pc = "fetch"
    /\ max_workers = 1
    /\ Len(tasks) = 3
    /\ tasks[1].status = "done" /\ Fetched(1)
    /\ tasks[2].status = "running"
    /\ tasks[3].status = "queued"
    /\ Untouched

\* C10: if every request returns or raises, run_transform returns with every
\* placeholder rewritten, each position's task having run once
C10_Terminates ==
    <>(/\ pc = "done"
       /\ \A n \in 1..Len(tree0) : tree0[n].type = PLACEHOLDER => tree[n].type = "container"
       /\ \A p \in 1..Len(tasks) : tasks[p].runs = 1)

====
